---- MODULE Spec2Model ----
(***************************************************************************)
(* Model of benchmark_awilix_lifetimes.js: the test-matrix expansion, the  *)
(* matrix runner (main), the request driver (runTest) with its in-flight   *)
(* map, the synthetic service graph (generateAwilixConfig and the three    *)
(* mock classes) and the asynchronous actions the driver leaves pending.   *)
(*                                                                         *)
(* JavaScript runs one synchronous stretch of code at a time; a promise    *)
(* continuation (a job) runs only when the call stack is empty.  The model *)
(* splits the synchronous stretches of runTest at the places the claims    *)
(* observe (after issuing, after the cap check, after the stop check) and  *)
(* runs the job at the head of the job queue only when no stretch is in    *)
(* progress.  Jobs are queued in the order the promises settle.            *)
(*                                                                         *)
(* Not modelled: console output, msSpentResolving (the time measured       *)
(* around the resolution), mockLoggerIdCounter (written, never read).      *)
(***************************************************************************)
EXTENDS Integers, Sequences, FiniteSets, TLC

VARIABLES
  testMatrix,              \* the matrix of lines 18-24
  testCases,               \* the expanded list of lines 29-39
  mainPc,                  \* position of the module / of main()
  caseIdx,                 \* position of main's for-of loop over testCases
  results,                 \* main's accumulator (line 52)
  frames,                  \* one record of locals per call of runTest
  jobs,                    \* the queue of promise jobs, oldest first
  totalDiInitializations,  \* global of line 42
  numberLogs,              \* global of line 44
  artifact,                \* content of awilix_lifetime_benchmark_result.json
  writes                   \* number of writeFileSync calls so far

vars == <<testMatrix, testCases, mainPc, caseIdx, results, frames, jobs,
          totalDiInitializations, numberLogs, artifact, writes>>

(***************************************************************************)
(* Bounds of the model.                                                    *)
(***************************************************************************)
MaxAxisLen == 2          \* longest axis of a matrix
MaxCases == 2            \* most test cases of a matrix that main runs
MaxRequests == 3         \* most requests one run issues

secondsPerTest == 3

\* The values the axes of a matrix are drawn from.
NumberServicesValues == {1, 2}
MaxInFlightValues == {1, 2}
LifetimeTypes == {"TRANSIENT", "SCOPED", "SINGLETON"}

(***************************************************************************)
(* Test matrix expansion (lines 28-39).                                    *)
(***************************************************************************)
RECURSIVE FlatOnce(_)
FlatOnce(s) == IF s = <<>> THEN <<>> ELSE Head(s) \o FlatOnce(Tail(s))

\* As NestedCases, but the innermost map reads the first cacheBypass value
\* instead of its own element.
NestedCasesFirstBypass(m) ==
  [a \in 1..Len(m.numberServices) |->
    [b \in 1..Len(m.maxInFlight) |->
      [c \in 1..Len(m.lifetimeType) |->
        [d \in 1..Len(m.cacheBypass) |->
          [numberServices |-> m.numberServices[a],
           maxInFlight    |-> m.maxInFlight[b],
           lifetimeType   |-> m.lifetimeType[c],
           cacheBypass    |-> m.cacheBypass[1],
           numberSeconds  |-> secondsPerTest]]]]]

\* The four nested map calls: an array of arrays of arrays of arrays of
\* test case objects.
NestedCases(m) ==
  [a \in 1..Len(m.numberServices) |->
    [b \in 1..Len(m.maxInFlight) |->
      [c \in 1..Len(m.lifetimeType) |->
        [d \in 1..Len(m.cacheBypass) |->
          [numberServices |-> m.numberServices[a],
           maxInFlight    |-> m.maxInFlight[b],
           lifetimeType   |-> m.lifetimeType[c],
           cacheBypass    |-> m.cacheBypass[d],
           numberSeconds  |-> secondsPerTest]]]]]

\* .flat(4): the arrays are nested three deep above the objects, so three
\* passes flatten them and the fourth pass finds no array left.
GenerateTestCases(m) == FlatOnce(FlatOnce(FlatOnce(NestedCases(m))))

(***************************************************************************)
(* The service graph (lines 158-239).  Names are <<kind, index>>.          *)
(***************************************************************************)
LoggerName == <<"logger", 0>>
ServiceName(i) == <<"mockService", i>>
RepositoryName(i) == <<"mockRepository", i>>

\* mockServiceNames: Object.keys(mockServices), indices 0..numberOfServices-1
MockServiceNames(numberOfServices) ==
  [i \in 1..numberOfServices |-> ServiceName(i - 1)]

\* As Deps, but the service's constructor reads opts.logger twice.
DepsLoggerTwice(name) ==
  IF name[1] = "mockService"
  THEN <<LoggerName, LoggerName, RepositoryName(name[2])>>
  ELSE IF name[1] = "mockRepository" THEN <<LoggerName>>
  ELSE <<>>

\* The registrations a constructor reads from its opts proxy, in order.
Deps(name) ==
  IF name[1] = "mockService" THEN <<LoggerName, RepositoryName(name[2])>>
  ELSE IF name[1] = "mockRepository" THEN <<LoggerName>>
  ELSE <<>>

\* As RegisteredLifetime, but the logger is registered without a lifetime
\* and gets the container's default.
RegisteredLifetimeLoggerDefault(name, lifetimeType) ==
  IF name = LoggerName THEN "TRANSIENT" ELSE lifetimeType

\* The lifetime every registration of generateAwilixConfig gets.
RegisteredLifetime(name, lifetimeType) == lifetimeType

\* container.resolve(name) against a cache (a set of cached names): the
\* number of constructor calls it makes and the cache afterwards.
RECURSIVE ResolveDeps(_, _, _, _)
RECURSIVE Resolve(_, _, _)
Resolve(name, lifetimeType, cache) ==
  LET lt == RegisteredLifetime(name, lifetimeType) IN
  IF lt # "TRANSIENT" /\ name \in cache
  THEN [cache |-> cache, built |-> 0]
  ELSE LET r == ResolveDeps(Deps(name), lifetimeType, cache, 1) IN
       [cache |-> IF lt = "TRANSIENT" THEN r.cache ELSE r.cache \cup {name},
        built |-> r.built]

ResolveDeps(deps, lifetimeType, cache, built) ==
  IF deps = <<>> THEN [cache |-> cache, built |-> built]
  ELSE LET r == Resolve(Head(deps), lifetimeType, cache) IN
       ResolveDeps(Tail(deps), lifetimeType, r.cache, built + r.built)

\* As ResolveStep, but line 103 is not under an else: resolve is called
\* after a cache hit too.
ResolveStepAlwaysResolves(name, lifetimeType, cacheBypass, targetCache) ==
  LET r == Resolve(name, lifetimeType, targetCache) IN
  [cache |-> r.cache, built |-> r.built, called |-> 1,
   hit |-> IF cacheBypass /\ name \in targetCache THEN 1 ELSE 0]

\* Lines 96-107: the resolution of one request against targetContainer:
\* the cache afterwards, the constructor calls made, whether resolve was
\* called and whether the cache was hit.
ResolveStep(name, lifetimeType, cacheBypass, targetCache) ==
  IF cacheBypass /\ name \in targetCache
  THEN [cache |-> targetCache, built |-> 0, called |-> 0, hit |-> 1]
  ELSE LET r == Resolve(name, lifetimeType, targetCache) IN
       [cache |-> r.cache, built |-> r.built, called |-> 1, hit |-> 0]

\* As TargetCache, but the scope is created once, before the loop.
TargetCacheOneScope(f) ==
  IF f.opts.lifetimeType = "SCOPED" THEN f.scopeCache ELSE f.cache

\* Line 90: the cache of targetContainer, empty for a scope just created.
TargetCache(f) ==
  IF f.opts.lifetimeType = "SCOPED" THEN {} ELSE f.cache

\* As NextRequestNumber, without the increment.
SameRequestNumber(n) == n

\* Line 88.
NextRequestNumber(n) == n + 1

(***************************************************************************)
(* mockAction (lines 166-183): the service logs, calls the repository's    *)
(* mockAction, which logs and returns without suspending, and then awaits  *)
(* the repository's promise.                                               *)
(***************************************************************************)
\* Calls of doLog before the service's mockAction suspends (lines 167, 181).
MockActionLogsAtCall == 2

(***************************************************************************)
(* runTest's locals (lines 68-81).                                         *)
(***************************************************************************)
NoResult == [maxInFlightHit |-> FALSE, requestNumber |-> 0,
             resolveCacheHits |-> 0, numberLogs |-> 0, resolvedResults |-> 0,
             totalSeconds |-> 0, totalDiInitializations |-> 0]

NewFrame(opts) ==
  [pc |-> "issue",
   opts |-> opts,
   cache |-> {},                \* cache of the container of line 73
   scopeCache |-> {},           \* cache of the scope of line 90
   elapsed |-> 0,               \* new Date() - startTime, in seconds
   unresolvedPromises |-> <<>>, \* keys of the Map, in insertion order
   resolvedResults |-> 0,
   resolveCacheHits |-> 0,
   maxInFlightHit |-> FALSE,
   requestNumber |-> 0,
   picked |-> {},               \* history: service names picked so far
   issued |-> <<>>,             \* history: arguments of mockAction so far
   resolveCalls |-> 0,          \* history: calls of resolve by runTest
   rejected |-> 0,              \* history: actions that ended rejected
   result |-> NoResult]

\* Line 114: unresolvedPromises.delete[requestNumber] reads a property of
\* the method delete and calls nothing.
ThenDelete(unresolvedPromises, requestNumber) == unresolvedPromises

\* Line 117: Map.set appends a new key and keeps the place of a key the
\* map holds already.
MapSet(unresolvedPromises, key) ==
  IF \E i \in 1..Len(unresolvedPromises) : unresolvedPromises[i] = key
  THEN unresolvedPromises
  ELSE Append(unresolvedPromises, key)

Job(kind, k, n) == [kind |-> kind, run |-> k, req |-> n]

\* The requests of run k whose resultPromise (line 112) is not settled yet.
Pending(k) ==
  {jobs[i].req : i \in {j \in 1..Len(jobs) :
                          /\ jobs[j].run = k
                          /\ jobs[j].kind \in {"service", "then"}}}

CallStackEmpty ==
  /\ mainPc \in {"awaitRun", "done", "failed"}
  /\ \A k \in 1..Len(frames) :
        frames[k].pc \in {"await", "returned", "failed"}

(***************************************************************************)
(* Initial state.                                                          *)
(***************************************************************************)
RECURSIVE SeqsNoDup(_, _)
SeqsNoDup(S, n) ==
  IF n = 0 THEN {<<>>}
  ELSE {<<>>} \cup {<<x>> \o s : x \in S, s \in SeqsNoDup(S, n - 1)}

Axes(S) == {s \in SeqsNoDup(S, MaxAxisLen) :
              /\ Len(s) >= 1
              /\ \A i, j \in 1..Len(s) : s[i] = s[j] => i = j}

Matrices ==
  [numberServices : Axes(NumberServicesValues),
   maxInFlight : Axes(MaxInFlightValues),
   lifetimeType : Axes(LifetimeTypes),
   cacheBypass : Axes(BOOLEAN)]

Product(m) ==
  Len(m.numberServices) * Len(m.maxInFlight) * Len(m.lifetimeType)
    * Len(m.cacheBypass)

InitWith(m) ==
  /\ testMatrix = m
  /\ testCases = <<>>
  /\ mainPc = "load"
  /\ caseIdx = 0
  /\ results = <<>>
  /\ frames = <<>>
  /\ jobs = <<>>
  /\ totalDiInitializations = 0
  /\ numberLogs = 0
  /\ artifact = <<>>
  /\ writes = 0

Init == \E m \in Matrices : Product(m) <= MaxCases /\ InitWith(m)

(***************************************************************************)
(* Module level and main (lines 28-62, 241).                               *)
(***************************************************************************)
Load ==
  /\ mainPc = "load"
  /\ testCases' = GenerateTestCases(testMatrix)
  /\ mainPc' = "main"
  /\ UNCHANGED <<testMatrix, caseIdx, results, frames, jobs,
                 totalDiInitializations, numberLogs, artifact, writes>>

MainEnter ==
  /\ mainPc = "main"
  /\ results' = <<>>
  /\ caseIdx' = 1
  /\ mainPc' = "loop"
  /\ UNCHANGED <<testMatrix, testCases, frames, jobs,
                 totalDiInitializations, numberLogs, artifact, writes>>

\* The call of line 55 up to the loop of runTest: lines 65-84.
CallRunTest ==
  /\ mainPc = "loop"
  /\ caseIdx <= Len(testCases)
  /\ frames' = Append(frames, NewFrame(testCases[caseIdx]))
  /\ numberLogs' = 0
  /\ totalDiInitializations' = 0
  /\ mainPc' = "call"
  /\ UNCHANGED <<testMatrix, testCases, caseIdx, results, jobs, artifact,
                 writes>>

\* As PushResult, but with unshift.
PushFirst(rs, testCase, result) == <<<<testCase, result>>>> \o rs

\* Line 56.
PushResult(rs, testCase, result) == Append(rs, <<testCase, result>>)

\* As AwaitRunTest without the await: main pushes what runTest handed back
\* and goes on with the loop.
NoAwaitRunTest(k) ==
  /\ mainPc' = "loop"
  /\ caseIdx' = caseIdx + 1
  /\ results' = PushResult(results, testCases[caseIdx], frames[k].result)

\* Line 55: runTest has handed its promise back and main awaits it.
AwaitRunTest(k) ==
  /\ mainPc' = "awaitRun"
  /\ UNCHANGED <<caseIdx, results>>

\* Control leaves runTest k (it suspends or returns): if main called it,
\* main goes on at line 55.
YieldToCaller(k) ==
  IF mainPc = "call" THEN AwaitRunTest(k)
  ELSE UNCHANGED <<mainPc, caseIdx, results>>

\* The continuation of line 55, line 56 and the loop header.
MainResume ==
  /\ mainPc = "awaitRun"
  /\ CallStackEmpty
  /\ jobs # <<>>
  /\ Head(jobs).kind = "main"
  /\ frames[caseIdx].pc = "returned"
  /\ jobs' = Tail(jobs)
  /\ results' = PushResult(results, testCases[caseIdx],
                           frames[caseIdx].result)
  /\ caseIdx' = caseIdx + 1
  /\ mainPc' = "loop"
  /\ UNCHANGED <<testMatrix, testCases, frames,
                 totalDiInitializations, numberLogs, artifact, writes>>

\* JSON.stringify(results, null, 2): one token per bracket and per object.
RECURSIVE StringifyPairs(_)
StringifyPairs(rs) ==
  IF rs = <<>> THEN <<>>
  ELSE <<[t |-> "["], [t |-> "obj", v |-> Head(rs)[1]],
         [t |-> "obj", v |-> Head(rs)[2]], [t |-> "]"]>>
       \o StringifyPairs(Tail(rs))

Stringify(rs) == <<[t |-> "["]>> \o StringifyPairs(rs) \o <<[t |-> "]"]>>

\* JSON.parse of the artifact: the list of pairs between the outer brackets.
ParseArtifact(toks) ==
  [i \in 1..((Len(toks) - 2) \div 4) |->
     <<toks[4 * (i - 1) + 3].v, toks[4 * (i - 1) + 4].v>>]

\* Lines 59-61.
WriteResults ==
  /\ mainPc = "loop"
  /\ caseIdx > Len(testCases)
  /\ artifact' = Stringify(results)
  /\ writes' = writes + 1
  /\ mainPc' = "done"
  /\ UNCHANGED <<testMatrix, testCases, caseIdx, results, frames, jobs,
                 totalDiInitializations, numberLogs>>

(***************************************************************************)
(* runTest's loop (lines 86-143).                                          *)
(***************************************************************************)
\* Lines 88-117 for the service name at index i of mockServiceNames.  The
\* service's mockAction runs up to its await of the repository's promise,
\* which is fulfilled already, so its continuation is queued here.
Issue(k, i) ==
  LET f == frames[k]
      o == f.opts
      name == MockServiceNames(o.numberServices)[i]
      targetCache == TargetCache(f)
      r == ResolveStep(name, o.lifetimeType, o.cacheBypass, targetCache)
      n == NextRequestNumber(f.requestNumber)
  IN
  /\ f.pc = "issue"
  /\ f.requestNumber < MaxRequests
  /\ frames' = [frames EXCEPT ![k] =
        [f EXCEPT !.pc = "check",
                  !.requestNumber = n,
                  !.cache = IF o.lifetimeType = "SCOPED" THEN f.cache
                            ELSE r.cache,
                  !.scopeCache = IF o.lifetimeType = "SCOPED" THEN r.cache
                                 ELSE f.scopeCache,
                  !.resolveCacheHits = f.resolveCacheHits + r.hit,
                  !.picked = f.picked \cup {name},
                  !.issued = Append(f.issued, n),
                  !.resolveCalls = f.resolveCalls + r.called,
                  !.unresolvedPromises = MapSet(f.unresolvedPromises, n)]]
  /\ totalDiInitializations' = totalDiInitializations + r.built
  /\ numberLogs' = numberLogs + MockActionLogsAtCall
  /\ jobs' = Append(jobs, Job("service", k, n))
  /\ UNCHANGED <<testMatrix, testCases, mainPc, caseIdx, results, artifact,
                 writes>>

\* As CapCheck, with > in place of >=.
CapCheckStrict(k) ==
  LET f == frames[k] IN
  /\ f.pc = "check"
  /\ IF Len(f.unresolvedPromises) > f.opts.maxInFlight
     THEN /\ frames' = [frames EXCEPT ![k] =
                 [f EXCEPT !.pc = "await", !.maxInFlightHit = TRUE]]
          /\ jobs' = Append(jobs, Job("runTest", k, 0))
          /\ YieldToCaller(k)
     ELSE /\ frames' = [frames EXCEPT ![k].pc = "stop"]
          /\ UNCHANGED <<jobs, mainPc, caseIdx, results>>
  /\ UNCHANGED <<testMatrix, testCases,
                 totalDiInitializations, numberLogs, artifact, writes>>

\* Lines 120-123.  The awaited value is the iterator result of
\* entries().next(), an object without a then method, so the continuation
\* of runTest is queued at once.
CapCheck(k) ==
  LET f == frames[k] IN
  /\ f.pc = "check"
  /\ IF Len(f.unresolvedPromises) >= f.opts.maxInFlight
     THEN /\ frames' = [frames EXCEPT ![k] =
                 [f EXCEPT !.pc = "await", !.maxInFlightHit = TRUE]]
          /\ jobs' = Append(jobs, Job("runTest", k, 0))
          /\ YieldToCaller(k)
     ELSE /\ frames' = [frames EXCEPT ![k].pc = "stop"]
          /\ UNCHANGED <<jobs, mainPc, caseIdx, results>>
  /\ UNCHANGED <<testMatrix, testCases,
                 totalDiInitializations, numberLogs, artifact, writes>>

\* The continuation of line 123.
AwaitResume(k) ==
  /\ frames[k].pc = "await"
  /\ CallStackEmpty
  /\ jobs # <<>>
  /\ Head(jobs) = Job("runTest", k, 0)
  /\ jobs' = Tail(jobs)
  /\ frames' = [frames EXCEPT ![k].pc = "stop"]
  /\ UNCHANGED <<testMatrix, testCases, mainPc, caseIdx, results,
                 totalDiInitializations, numberLogs, artifact, writes>>

\* As StopCheck, with >= in place of >.
StopCheckAtLeast(k) ==
  LET f == frames[k] IN
  /\ f.pc = "stop"
  /\ f.requestNumber < MaxRequests \/ f.elapsed > f.opts.numberSeconds
  /\ IF f.elapsed >= f.opts.numberSeconds
     THEN /\ frames' = [frames EXCEPT ![k] =
                 [f EXCEPT !.pc = "returned",
                           !.result =
                             [maxInFlightHit |-> f.maxInFlightHit,
                              requestNumber |-> f.requestNumber,
                              resolveCacheHits |-> f.resolveCacheHits,
                              numberLogs |-> numberLogs,
                              resolvedResults |-> f.resolvedResults,
                              totalSeconds |-> f.elapsed,
                              totalDiInitializations |->
                                 totalDiInitializations]]]
          /\ jobs' = Append(jobs, Job("main", k, 0))
          /\ YieldToCaller(k)
     ELSE /\ frames' = [frames EXCEPT ![k].pc = "issue"]
          /\ UNCHANGED <<jobs, mainPc, caseIdx, results>>
  /\ UNCHANGED <<testMatrix, testCases,
                 totalDiInitializations, numberLogs, artifact, writes>>

\* As StopCheck, but the elapsed time is taken from the start of the
\* iteration and never exceeds numberSeconds.
StopCheckNeverUp(k) ==
  /\ frames[k].pc = "stop"
  /\ frames[k].requestNumber < MaxRequests
  /\ frames' = [frames EXCEPT ![k].pc = "issue"]
  /\ UNCHANGED <<testMatrix, testCases, mainPc, caseIdx, results, jobs,
                 totalDiInitializations, numberLogs, artifact, writes>>

\* Lines 126-143.  A run that has issued MaxRequests requests reads the
\* clock only after the time is up.  The return fulfils runTest's promise,
\* which queues main's continuation.
StopCheck(k) ==
  LET f == frames[k] IN
  /\ f.pc = "stop"
  /\ f.requestNumber < MaxRequests \/ f.elapsed > f.opts.numberSeconds
  /\ IF f.elapsed > f.opts.numberSeconds
     THEN /\ frames' = [frames EXCEPT ![k] =
                 [f EXCEPT !.pc = "returned",
                           !.result =
                             [maxInFlightHit |-> f.maxInFlightHit,
                              requestNumber |-> f.requestNumber,
                              resolveCacheHits |-> f.resolveCacheHits,
                              numberLogs |-> numberLogs,
                              resolvedResults |-> f.resolvedResults,
                              totalSeconds |-> f.elapsed,
                              totalDiInitializations |->
                                 totalDiInitializations]]]
          /\ jobs' = Append(jobs, Job("main", k, 0))
          /\ YieldToCaller(k)
     ELSE /\ frames' = [frames EXCEPT ![k].pc = "issue"]
          /\ UNCHANGED <<jobs, mainPc, caseIdx, results>>
  /\ UNCHANGED <<testMatrix, testCases,
                 totalDiInitializations, numberLogs, artifact, writes>>

\* The wall clock advances by one second.
Tick ==
  /\ \E k \in 1..Len(frames) :
        /\ frames[k].pc \notin {"returned", "failed"}
        /\ frames[k].elapsed <= frames[k].opts.numberSeconds
  /\ frames' = [k \in 1..Len(frames) |->
        IF frames[k].pc \notin {"returned", "failed"}
           /\ frames[k].elapsed <= frames[k].opts.numberSeconds
        THEN [frames[k] EXCEPT !.elapsed = @ + 1]
        ELSE frames[k]]
  /\ UNCHANGED <<testMatrix, testCases, mainPc, caseIdx, results, jobs,
                 totalDiInitializations, numberLogs, artifact, writes>>

(***************************************************************************)
(* Jobs of the pending actions.                                            *)
(***************************************************************************)
\* As ServiceResume, had the service called doLog after its await.
ServiceResumeLogs ==
  /\ CallStackEmpty
  /\ jobs # <<>>
  /\ Head(jobs).kind = "service"
  /\ jobs' = Append(Tail(jobs), Job("then", Head(jobs).run, Head(jobs).req))
  /\ numberLogs' = numberLogs + 1
  /\ UNCHANGED <<testMatrix, testCases, mainPc, caseIdx, results, frames,
                 totalDiInitializations, artifact, writes>>

\* Line 168 after the await: the service's mockAction returns, which
\* fulfils its promise and queues the callback of line 112.
ServiceResume ==
  /\ CallStackEmpty
  /\ jobs # <<>>
  /\ Head(jobs).kind = "service"
  /\ jobs' = Append(Tail(jobs), Job("then", Head(jobs).run, Head(jobs).req))
  /\ UNCHANGED <<testMatrix, testCases, mainPc, caseIdx, results, frames,
                 totalDiInitializations, numberLogs, artifact, writes>>

\* As ThenCallback, had resolvedResults been a variable of the module: the
\* callback counts for the latest run.
ThenCallbackShared ==
  /\ CallStackEmpty
  /\ jobs # <<>>
  /\ Head(jobs).kind = "then"
  /\ jobs' = Tail(jobs)
  /\ LET k == Len(frames)
         f == frames[k]
     IN frames' = [frames EXCEPT ![k] =
          [f EXCEPT !.resolvedResults = f.resolvedResults + 1,
                    !.unresolvedPromises =
                       ThenDelete(f.unresolvedPromises, f.requestNumber)]]
  /\ UNCHANGED <<testMatrix, testCases, mainPc, caseIdx, results,
                 totalDiInitializations, numberLogs, artifact, writes>>

\* Lines 112-115: the callback of then.  requestNumber is the variable of
\* the run, read when the callback runs.
ThenCallback ==
  /\ CallStackEmpty
  /\ jobs # <<>>
  /\ Head(jobs).kind = "then"
  /\ jobs' = Tail(jobs)
  /\ LET k == Head(jobs).run
         f == frames[k]
     IN frames' = [frames EXCEPT ![k] =
          [f EXCEPT !.resolvedResults = f.resolvedResults + 1,
                    !.unresolvedPromises =
                       ThenDelete(f.unresolvedPromises, f.requestNumber)]]
  /\ UNCHANGED <<testMatrix, testCases, mainPc, caseIdx, results,
                 totalDiInitializations, numberLogs, artifact, writes>>

Next ==
  \/ Load
  \/ MainEnter
  \/ CallRunTest
  \/ MainResume
  \/ WriteResults
  \/ \E k \in 1..Len(frames) :
        \E i \in 1..frames[k].opts.numberServices : Issue(k, i)
  \/ \E k \in 1..Len(frames) : CapCheck(k)
  \/ \E k \in 1..Len(frames) : AwaitResume(k)
  \/ \E k \in 1..Len(frames) : StopCheck(k)
  \/ Tick
  \/ ServiceResume
  \/ ThenCallback

Spec == Init /\ [][Next]_vars

(***************************************************************************)
(* Failures.  Nothing in runTest or main catches an exception: a throw in  *)
(* runTest rejects its promise, and the await of line 55 throws it again   *)
(* in main, whose promise nobody handles.  The then of line 112 has no     *)
(* rejection handler.                                                      *)
(***************************************************************************)
\* Line 73 throws: runTest ends before its locals and the reset.
GraphFails ==
  /\ mainPc = "loop"
  /\ caseIdx <= Len(testCases)
  /\ frames' = Append(frames,
                      [NewFrame(testCases[caseIdx]) EXCEPT !.pc = "failed"])
  /\ jobs' = Append(jobs, Job("main", caseIdx, 0))
  /\ mainPc' = "awaitRun"
  /\ UNCHANGED <<testMatrix, testCases, caseIdx, results,
                 totalDiInitializations, numberLogs, artifact, writes>>

\* Line 103 or 106 throws after line 88 has counted the request.
ResolveFails(k) ==
  LET f == frames[k] IN
  /\ f.pc = "issue"
  /\ f.requestNumber < MaxRequests
  /\ frames' = [frames EXCEPT ![k] =
        [f EXCEPT !.pc = "failed",
                  !.requestNumber = NextRequestNumber(f.requestNumber)]]
  /\ jobs' = Append(jobs, Job("main", k, 0))
  /\ YieldToCaller(k)
  /\ UNCHANGED <<testMatrix, testCases,
                 totalDiInitializations, numberLogs, artifact, writes>>

\* As MainRejected, had main caught the error and gone on with the loop.
MainRejectedSwallowed ==
  /\ mainPc = "awaitRun"
  /\ CallStackEmpty
  /\ jobs # <<>>
  /\ Head(jobs).kind = "main"
  /\ frames[caseIdx].pc = "failed"
  /\ jobs' = Tail(jobs)
  /\ caseIdx' = caseIdx + 1
  /\ mainPc' = "loop"
  /\ UNCHANGED <<testMatrix, testCases, results, frames,
                 totalDiInitializations, numberLogs, artifact, writes>>

\* The continuation of line 55 when runTest's promise is rejected: main
\* ends with the error, before lines 56-61.
MainRejected ==
  /\ mainPc = "awaitRun"
  /\ CallStackEmpty
  /\ jobs # <<>>
  /\ Head(jobs).kind = "main"
  /\ frames[caseIdx].pc = "failed"
  /\ jobs' = Tail(jobs)
  /\ mainPc' = "failed"
  /\ UNCHANGED <<testMatrix, testCases, caseIdx, results, frames,
                 totalDiInitializations, numberLogs, artifact, writes>>

RECURSIVE SumRejected(_)
SumRejected(k) == IF k = 0 THEN 0 ELSE frames[k].rejected + SumRejected(k - 1)

\* The actions that have ended rejected so far, over all runs.  One
\* rejection is followed: Node reports it and either goes on, as here, or
\* ends the process, which changes no counter.
Rejections == SumRejected(Len(frames))

\* As ActionFails, had line 112 passed the callback for rejections too.
ActionFailsCounted ==
  /\ CallStackEmpty
  /\ jobs # <<>>
  /\ Head(jobs).kind = "service"
  /\ Rejections = 0
  /\ jobs' = Tail(jobs)
  /\ frames' = [frames EXCEPT ![Head(jobs).run] =
        [@ EXCEPT !.rejected = @ + 1, !.resolvedResults = @ + 1]]
  /\ UNCHANGED <<testMatrix, testCases, mainPc, caseIdx, results,
                 totalDiInitializations, numberLogs, artifact, writes>>

\* Lines 112-115 when the service's mockAction ends rejected: the callback
\* of then is not called.
ActionFails ==
  /\ CallStackEmpty
  /\ jobs # <<>>
  /\ Head(jobs).kind = "service"
  /\ Rejections = 0
  /\ jobs' = Tail(jobs)
  /\ frames' = [frames EXCEPT ![Head(jobs).run].rejected = @ + 1]
  /\ UNCHANGED <<testMatrix, testCases, mainPc, caseIdx, results,
                 totalDiInitializations, numberLogs, artifact, writes>>

\* The program with a container that may throw.
NextFail ==
  \/ Next
  \/ GraphFails
  \/ \E k \in 1..Len(frames) : ResolveFails(k)
  \/ MainRejected

SpecFail == Init /\ [][NextFail]_vars

\* The program with an action that may end rejected.
NextReject ==
  \/ Next
  \/ ActionFails

\* One run is enough to see every request of a run completed or rejected.
InitReject == \E m \in Matrices : Product(m) = 1 /\ InitWith(m)

SpecReject == InitReject /\ [][NextReject]_vars

\* The program under the scheduling of the engine: the clock advances and
\* whatever can run next does.
NextProgram ==
  \/ Load
  \/ MainEnter
  \/ CallRunTest
  \/ MainResume
  \/ WriteResults
  \/ \E k \in 1..Len(frames) :
        \E i \in 1..frames[k].opts.numberServices : Issue(k, i)
  \/ \E k \in 1..Len(frames) : CapCheck(k)
  \/ \E k \in 1..Len(frames) : AwaitResume(k)
  \/ \E k \in 1..Len(frames) : StopCheck(k)
  \/ ServiceResume
  \/ ThenCallback

NextLive == NextProgram \/ Tick

\* The matrices whose test cases differ in maxInFlight only: the one option
\* that decides whether a run awaits at the cap.
InitLive ==
  \E m \in Matrices :
    /\ Product(m) <= MaxCases
    /\ Len(m.lifetimeType) = 1
    /\ Len(m.cacheBypass) = 1
    /\ Len(m.numberServices) = 1
    /\ InitWith(m)

SpecLive ==
  InitLive /\ [][NextLive]_vars /\ WF_vars(Tick) /\ WF_vars(NextProgram)

\* The expansion alone, over every matrix of the bounds.
InitMatrix == \E m \in Matrices : InitWith(m)
NextMatrix == Load
SpecMatrix == InitMatrix /\ [][NextMatrix]_vars

(***************************************************************************)
(* Properties.                                                             *)
(***************************************************************************)
Runs == 1..Len(frames)
Keys(k) == {frames[k].unresolvedPromises[i] :
              i \in 1..Len(frames[k].unresolvedPromises)}

\* C1: in every state the keys of a run's in-flight map are exactly the
\* requests of that run whose action has not completed yet.
C1_KeysArePending == \A k \in Runs : Keys(k) = Pending(k)

\* C2: once the cap check has fired, the in-flight map holds at most
\* maxInFlight entries at the start of every later iteration, and at most
\* one more than that at any time.
C2_SizeBoundedAfterCapHit ==
  \A k \in Runs :
    LET f == frames[k] IN
    f.maxInFlightHit =>
      /\ f.pc = "issue" => Len(f.unresolvedPromises) <= f.opts.maxInFlight
      /\ Len(f.unresolvedPromises) <= f.opts.maxInFlight + 1

\* C3: when runTest goes on after the await of the cap check, the action of
\* the oldest entry of the in-flight map has completed.
C3_ResumeAfterOldestCompleted ==
  [][\A k \in Runs :
       (frames[k].pc = "await" /\ frames'[k].pc # "await")
         => Head(frames[k].unresolvedPromises) \notin Pending(k)']_vars

\* C4 as stated: a SINGLETON run returns 2*numberServices + 1 constructions
\* whatever names were picked.
C4_SingletonCountIsFull ==
  \A k \in Runs :
    (frames[k].pc = "returned" /\ frames[k].opts.lifetimeType = "SINGLETON")
      => frames[k].result.totalDiInitializations
           = 2 * frames[k].opts.numberServices + 1

\* C4 amended: a SINGLETON run returns 2*d + 1 constructions, d the number
\* of distinct service names it picked, hence at most 2*numberServices + 1.
C4_SingletonCountIsPicked ==
  \A k \in Runs :
    (frames[k].pc = "returned" /\ frames[k].opts.lifetimeType = "SINGLETON")
      => /\ frames[k].result.totalDiInitializations
              = 2 * Cardinality(frames[k].picked) + 1
         /\ frames[k].result.totalDiInitializations
              <= 2 * frames[k].opts.numberServices + 1

C4_Witness ==
  \E k \in Runs :
    /\ frames[k].pc = "returned"
    /\ frames[k].opts.lifetimeType = "SINGLETON"
    /\ frames[k].opts.numberServices = 2
    /\ frames[k].result.requestNumber = 3
    /\ Cardinality(frames[k].picked) = 1
    /\ frames[k].result.totalDiInitializations = 3

\* C5 as stated: in a TRANSIENT run every issued request increases the
\* construction counter, which stays at most 3 * requests issued.
C5_TransientAtMostThree ==
  [][\A k \in Runs :
       (/\ frames[k].opts.lifetimeType = "TRANSIENT"
        /\ frames'[k].requestNumber = frames[k].requestNumber + 1)
         => /\ totalDiInitializations' > totalDiInitializations
            /\ totalDiInitializations' <= 3 * frames'[k].requestNumber]_vars

\* C5 amended: in a TRANSIENT run every issued request increases the
\* construction counter, which stays at most 4 * requests issued.
C5_TransientAtMostFour ==
  [][\A k \in Runs :
       (/\ frames[k].opts.lifetimeType = "TRANSIENT"
        /\ frames'[k].requestNumber = frames[k].requestNumber + 1)
         => /\ totalDiInitializations' > totalDiInitializations
            /\ totalDiInitializations' <= 4 * frames'[k].requestNumber]_vars

C5_Witness ==
  \E k \in Runs :
    /\ frames[k].opts.lifetimeType = "TRANSIENT"
    /\ frames[k].pc = "check"
    /\ frames[k].requestNumber = 3
    /\ totalDiInitializations = 12

\* C6: every call of runTest sets both global counters to zero, and after
\* that only the requests issued by the latest run change them: no job of
\* an action left pending by an earlier run does.
C6_CountersOwnedByRun ==
  [][/\ Len(frames') > Len(frames)
          => totalDiInitializations' = 0 /\ numberLogs' = 0
     /\ (\/ totalDiInitializations' # totalDiInitializations
         \/ numberLogs' # numberLogs)
          => \/ Len(frames') > Len(frames)
             \/ /\ Len(frames) > 0
                /\ frames'[Len(frames)].requestNumber
                     = frames[Len(frames)].requestNumber + 1]_vars

C6_Witness ==
  /\ Len(frames) = 2
  /\ frames[1].pc = "returned"
  /\ frames[2].pc = "await"
  /\ frames[2].requestNumber >= 1
  /\ numberLogs = 2 * frames[2].requestNumber
  /\ frames[1].resolvedResults > frames[1].result.resolvedResults

\* C7: a run starts only after every earlier run has returned and main has
\* taken its result, so at most one run is not returned at any time.
C7_RunsSequential ==
  /\ \A k \in Runs : k < Len(frames) => frames[k].pc = "returned"
  /\ Len(frames) > 0 => Len(results) >= Len(frames) - 1

C7_Witness ==
  /\ Len(frames) = 2
  /\ frames[2].pc = "await"
  /\ frames[1].result.requestNumber >= 2

\* C8: the expanded list is the cartesian product of the four axes: as
\* long as the product of the axis lengths, holding every combination of
\* axis values exactly once, each with numberSeconds = secondsPerTest.
C8_CartesianProduct ==
  mainPc # "load" =>
    /\ Len(testCases) = Product(testMatrix)
    /\ \A a \in 1..Len(testMatrix.numberServices),
          b \in 1..Len(testMatrix.maxInFlight),
          c \in 1..Len(testMatrix.lifetimeType),
          d \in 1..Len(testMatrix.cacheBypass) :
          Cardinality({i \in 1..Len(testCases) :
             /\ testCases[i].numberServices = testMatrix.numberServices[a]
             /\ testCases[i].maxInFlight = testMatrix.maxInFlight[b]
             /\ testCases[i].lifetimeType = testMatrix.lifetimeType[c]
             /\ testCases[i].cacheBypass = testMatrix.cacheBypass[d]}) = 1
    /\ \A i \in 1..Len(testCases) :
          testCases[i].numberSeconds = secondsPerTest

C8_Witness ==
  /\ mainPc = "main"
  /\ Len(testMatrix.numberServices) = 2
  /\ Len(testMatrix.maxInFlight) = 2
  /\ Len(testMatrix.lifetimeType) = 2
  /\ Len(testMatrix.cacheBypass) = 2
  /\ Len(testCases) = 16

\* C9: the artifact is written once, after the last run, and read back it
\* is the list of the expanded test cases, each with the result its run
\* returned, in the order of the expansion.
C9_ArtifactRoundTrip ==
  /\ mainPc # "done" => writes = 0 /\ artifact = <<>>
  /\ mainPc = "done" =>
       /\ writes = 1
       /\ \A k \in Runs : frames[k].pc = "returned"
       /\ Len(ParseArtifact(artifact)) = Len(testCases)
       /\ \A i \in 1..Len(testCases) :
             /\ ParseArtifact(artifact)[i][1] = testCases[i]
             /\ ParseArtifact(artifact)[i][2] = frames[i].result

C9_Witness ==
  /\ mainPc = "done"
  /\ Len(testCases) = 2
  /\ frames[1].result.requestNumber # frames[2].result.requestNumber

\* C11: the returned flag is true for every run with maxInFlight = 1 that
\* issued more than one request; the flag becomes true at a cap check that
\* finds the map at least maxInFlight long, at no other step, and never
\* becomes false again.
C11_CapFlag ==
  /\ [](\A k \in Runs :
         (/\ frames[k].pc = "returned"
          /\ frames[k].opts.maxInFlight = 1
          /\ frames[k].result.requestNumber > 1)
           => frames[k].result.maxInFlightHit)
  /\ [][\A k \in Runs :
         frames'[k].maxInFlightHit =
           (\/ frames[k].maxInFlightHit
            \/ /\ frames[k].pc = "check"
               /\ frames'[k].pc # "check"
               /\ Len(frames[k].unresolvedPromises)
                    >= frames[k].opts.maxInFlight)]_vars

C11_Witness ==
  \E k \in Runs :
    /\ frames[k].pc = "returned"
    /\ frames[k].opts.maxInFlight = 1
    /\ frames[k].result.requestNumber = 3
    /\ frames[k].result.maxInFlightHit

\* C12: after runTest has returned, no step changes its result, neither in
\* its frame nor in main's list, and a then-callback changes nothing of
\* any run but the resolvedResults of the run that issued its request.
C12_ResultImmutable ==
  [][/\ \A k \in Runs :
          frames[k].pc = "returned"
            => /\ frames'[k].pc = "returned"
               /\ frames'[k].result = frames[k].result
     /\ \A i \in 1..Len(results) : results'[i] = results[i]
     /\ (jobs # <<>> /\ Head(jobs).kind = "then" /\ jobs' = Tail(jobs))
          => \A k \in Runs :
               frames'[k] =
                 IF k = Head(jobs).run
                 THEN [frames[k] EXCEPT !.resolvedResults = @ + 1]
                 ELSE frames[k]]_vars

C12_Witness ==
  /\ Len(frames) = 2
  /\ Len(results) = 1
  /\ frames[1].resolvedResults = 1
  /\ frames[1].result.resolvedResults = 0
  /\ results[1][2].resolvedResults = 0
  /\ frames[2].requestNumber >= 1
  /\ frames[2].resolvedResults = 0

\* C13: the request number changes only when a request is issued; the
\* stop check follows every issue, leaves the loop exactly when the elapsed
\* time exceeds numberSeconds and is the only way out; a returned run has
\* issued at least one request, counts the last one, and issues no more.
C13_StopCheck ==
  /\ [](\A k \in Runs :
         frames[k].pc = "returned"
           => /\ frames[k].result.requestNumber >= 1
              /\ frames[k].result.requestNumber = Len(frames[k].issued)
              /\ frames[k].result.totalSeconds > frames[k].opts.numberSeconds)
  /\ [][\A k \in Runs :
         /\ Len(frames'[k].issued) # Len(frames[k].issued)
              => frames[k].pc = "issue" /\ frames'[k].pc = "check"
         /\ (frames[k].pc = "check" /\ frames'[k].pc # "check")
              => frames'[k].pc \in {"await", "stop"}
         /\ (frames[k].pc = "await" /\ frames'[k].pc # "await")
              => frames'[k].pc = "stop"
         /\ (frames[k].pc = "stop" /\ frames'[k].pc # "stop")
              => frames'[k].pc =
                   IF frames[k].elapsed > frames[k].opts.numberSeconds
                   THEN "returned" ELSE "issue"
         /\ frames[k].pc = "returned" => frames'[k].pc = "returned"]_vars

C13_Witness ==
  \E k \in Runs :
    /\ frames[k].pc = "returned"
    /\ frames[k].result.requestNumber = 3
    /\ frames[k].result.resolvedResults < 3
    /\ Pending(k) # {}

\* C14: cache hits plus calls of resolve equal the requests issued, at
\* every point of a run, and without cacheBypass there is no cache hit.
C14_ResolvePaths ==
  \A k \in Runs :
    /\ frames[k].resolveCacheHits + frames[k].resolveCalls
         = Len(frames[k].issued)
    /\ Len(frames[k].issued) = frames[k].requestNumber
    /\ ~frames[k].opts.cacheBypass => frames[k].resolveCacheHits = 0

C14_Witness ==
  \E k \in Runs :
    /\ frames[k].opts.cacheBypass
    /\ frames[k].requestNumber = 3
    /\ frames[k].resolveCacheHits = 2
    /\ frames[k].resolveCalls = 1

C16_SequenceNumbers ==
  /\ [](\A k \in Runs :
         /\ \A i \in 1..Len(frames[k].issued) : frames[k].issued[i] = i
         /\ Len(frames[k].issued) = frames[k].requestNumber
         /\ frames[k].pc = "returned"
              => frames[k].result.requestNumber = Len(frames[k].issued))
  /\ [][\A k \in Runs :
         Len(frames'[k].issued) > Len(frames[k].issued)
           => /\ frames'[k].requestNumber \notin Keys(k)
              /\ Len(frames'[k].unresolvedPromises)
                   = Len(frames[k].unresolvedPromises) + 1]_vars

C16_Witness ==
  \E k \in Runs :
    /\ frames[k].issued = <<1, 2, 3>>
    /\ Pending(k) = {2, 3}
    /\ frames[k].resolvedResults = 1

\* C17: once a run has failed, it is the last run: no later test case is
\* started, the failed run is not called again, main holds no result for
\* it and the artifact is never written.
C17_FailurePropagates ==
  /\ \A k \in Runs :
        frames[k].pc = "failed"
          => /\ k = Len(frames)
             /\ caseIdx = k
             /\ Len(results) = k - 1
             /\ mainPc \in {"call", "awaitRun", "failed"}
             /\ writes = 0
             /\ artifact = <<>>
  /\ mainPc = "failed" => frames[Len(frames)].pc = "failed"

C17_Witness ==
  /\ mainPc = "failed"
  /\ Len(testCases) = 2
  /\ Len(frames) = 1
  /\ frames[1].requestNumber = 2
  /\ jobs = <<>>

\* C18: a SCOPED run has no cache hit and three constructions per request;
\* a TRANSIENT run has no cache hit; a cache hit needs SINGLETON,
\* cacheBypass and a service name picked before in the run.
C18_ScopedCounts ==
  /\ \A k \in Runs :
        /\ frames[k].opts.lifetimeType \in {"SCOPED", "TRANSIENT"}
             => frames[k].resolveCacheHits = 0
        /\ (frames[k].opts.lifetimeType = "SCOPED"
             /\ frames[k].pc = "returned")
             => frames[k].result.totalDiInitializations
                  = 3 * frames[k].result.requestNumber
        /\ frames[k].resolveCacheHits > 0
             => /\ frames[k].opts.lifetimeType = "SINGLETON"
                /\ frames[k].opts.cacheBypass
                /\ Cardinality(frames[k].picked) < Len(frames[k].issued)
  /\ (Len(frames) > 0 /\ frames[Len(frames)].opts.lifetimeType = "SCOPED")
       => totalDiInitializations = 3 * Len(frames[Len(frames)].issued)

C18_Witness ==
  \E k \in Runs :
    /\ frames[k].opts.lifetimeType = "SCOPED"
    /\ frames[k].opts.cacheBypass
    /\ frames[k].pc = "returned"
    /\ Cardinality(frames[k].picked) = 1
    /\ frames[k].result.requestNumber = 3
    /\ frames[k].result.totalDiInitializations = 9

\* C19: the log counter is twice the requests issued by the latest run, in
\* every state, and so is the returned one, whatever has completed.
C19_TwoLogsPerRequest ==
  /\ Len(frames) > 0 => numberLogs = 2 * Len(frames[Len(frames)].issued)
  /\ \A k \in Runs :
        frames[k].pc = "returned"
          => frames[k].result.numberLogs = 2 * frames[k].result.requestNumber

C19_Witness ==
  \E k \in Runs :
    /\ frames[k].pc = "returned"
    /\ frames[k].result.requestNumber = 2
    /\ frames[k].result.numberLogs = 4
    /\ frames[k].result.resolvedResults = 0

\* C20: every request of a run is pending, counted once in resolvedResults
\* or rejected and not counted, so resolvedResults never exceeds the
\* requests issued, in the run's locals and in its result.
C20_CompletionsBounded ==
  \A k \in Runs :
    /\ frames[k].resolvedResults + Cardinality(Pending(k)) + frames[k].rejected
         = Len(frames[k].issued)
    /\ frames[k].resolvedResults <= Len(frames[k].issued)
    /\ frames[k].pc = "returned"
         => frames[k].result.resolvedResults <= frames[k].result.requestNumber

C20_Witness ==
  \E k \in Runs :
    /\ frames[k].pc = "returned"
    /\ frames[k].result.requestNumber = 3
    /\ frames[k].rejected = 1
    /\ Pending(k) = {}
    /\ frames[k].resolvedResults = 2
    /\ frames[k].result.resolvedResults < 2

====
